---- MODULE Spec2Model ----
(***************************************************************************)
(* askless backend: the POST /api/ask handler (duplicate detection by tag  *)
(* overlap, question creation, fan-out to the five bot personalities) and  *)
(* the vote store (createVote / getUserVote / getVoteCounts).              *)
(*                                                                         *)
(* Every `await` of a store or model call in the handlers is a step of its *)
(* own, so that concurrent requests interleave exactly where the event     *)
(* loop lets them.  Store and model failures are choices of the            *)
(* environment wherever the code has a branch for them.                    *)
(***************************************************************************)
EXTENDS Integers, Sequences, FiniteSets, TLC

NULL == "null"

\* ------------------------------------------------------------------ bounds
\* Number of requests of SpecRace, the specification of concurrent requests.
MaxAsks == 3
\* Number of POST /api/ask requests that can be in flight at once.
MaxInFlight == 2
\* Number of requests of SpecAsk, the specification of sequential requests.
MaxSeqAsks == 2
\* Number of requests of SpecFan, the specification of the fan-out.
MaxFanAsks == 2
\* Number of vote rows ever inserted in one behaviour.
MaxVoteIds == 3
\* Number of createVote calls that can be in flight at once.
MaxCalls == 2
\* Longest tag list the tag-generation model returns in the model.
MaxTags == 3
\* Number of runs of initializeBotProfiles / generateBotAnswer in flight at once.
MaxRuns == 2
\* Number of requests of SpecErr, the specification of upstream failures.
MaxErrAsks == 1
\* Longest list of names a direct call of getOrCreateTags is given.
MaxCallNames == 2
\* Number of loadQuestionById invocations that can be in flight at once.
MaxLoads == 2
\* Number of comment rows of the comments table.
MaxComments == 2
\* Number of deleteComment calls that can be in flight at once.
MaxDels == 2

\* --------------------------------------------------------------- constants
\* BOT_PERSONALITIES has five entries.
NumBots == 5
\* The cap in Math.min(2, tagNames.length).
OverlapCap == 2
\* generateTags keeps the first five names: slice(0, 5).
TagCut == 5
\* pollForAnswers gives up at attempt 6.
PollLimit == 6

Slots == 1..MaxInFlight
BotIdx == 1..NumBots

\* The personality keys, in the order of BOT_PERSONALITIES.
BotKeys == <<"bot_helpful", "bot_mean", "bot_blunt", "bot_friendly", "bot_technical">>

\* generateDeterministicUUID: a fixed injective function of the key (sha1 of
\* namespace + key, formatted as a UUID).
UUIDs ==
    [bot_helpful |-> "uuid5:bot_helpful", bot_mean |-> "uuid5:bot_mean",
     bot_blunt |-> "uuid5:bot_blunt", bot_friendly |-> "uuid5:bot_friendly",
     bot_technical |-> "uuid5:bot_technical"]

generateDeterministicUUID(key) == UUIDs[key]

\* BOT_PERSONALITIES[i].id
BotId(i) == generateDeterministicUUID(BotKeys[i])

BotIds == {BotId(i) : i \in BotIdx}

\* The asking users of the model.
Users == {"u1"}

\* The ids a profile row can have in the model.
ProfileIds == BotIds \cup Users

\* upsert(profile, { onConflict: 'id' }) / a profile made sure to exist: the
\* row is inserted unless a row with the id is there.
WithProfile(table, id) == [table EXCEPT ![id] = IF @ = 0 THEN 1 ELSE @]

\* The tag names of the model; a tag's id is identified with its name (the
\* tags table is a bijection id <-> name, names being unique).
TagOrder == <<"css", "html", "js">>
TagNames == {TagOrder[i] : i \in 1..Len(TagOrder)}

\* The names a caller can give that the model's tags do not already spell:
\* the same letters in another case.
CaseNames == {"CSS", "Css"}

\* String.prototype.toLowerCase on the names of the model.
LowerOf == [css |-> "css", html |-> "html", js |-> "js", CSS |-> "css", Css |-> "css"]

Lower(n) == LowerOf[n]

Range(s) == {s[i] : i \in 1..Len(s)}

Min(a, b) == IF a < b THEN a ELSE b

TagPos(n) == CHOOSE i \in 1..Len(TagOrder) : TagOrder[i] = n

\* The lists the tag-generation model can return: any list of at most MaxTags
\* names, repeats included.  The handler uses a list only through its length
\* and its elements, so one list stands for all its reorderings.
GenLists ==
    {l \in UNION {[1..n -> TagNames] : n \in 0..MaxTags} :
       \A i, j \in DOMAIN l : i < j => TagPos(l[i]) <= TagPos(l[j])}

\* The rows of `select name from tags where id in (tagIds)`, as a list.
SelectedNames(table, tagIds) ==
    SelectSeq(TagOrder, LAMBDA n : n \in tagIds /\ n \in table)

VARIABLES
    config,      \* TRUE iff the in-memory config holds an API key
    profiles,    \* table profiles: id -> number of rows with that id
    tags,        \* names of the rows of table tags
    questions,   \* table questions: a sequence, a question's id is its index
    answers,     \* table answers: [question_id, user_id] -> number of rows
    req,         \* the POST /api/ask requests in flight, per slot
    asks,        \* number of POST /api/ask requests submitted so far
    askLog,      \* history: per question, the tag set it was asked with,
                 \* whether the request that created it has returned, and
                 \* the number of updates of its search_count the store took
    votesTable,  \* TRUE iff table votes exists (the migration was run)
    votes,       \* table votes: a set of rows
    nextVoteId,  \* the id the next inserted vote gets (ids are fresh)
    calls,       \* the createVote calls in flight, per slot
    hist,        \* history: the last two createVote calls run one after the other,
                 \* or the two calls of a concurrent pair; each with the store
                 \* it started from
    runs,        \* the runs of initializeBotProfiles / of the profile part of
                 \* generateBotAnswer in flight, per slot
    gen,         \* one generateBotAnswer call, model by model
    tagCall,     \* the last direct call of getOrCreateTags: its input and result
    comments,    \* table comments: a set of rows
    dels,        \* the deleteComment calls in flight, per slot
    ui,          \* the React state of the client: view, currentQuestion, answers,
                 \* visibleAnswers, error
    effect,      \* the reveal effect: whether it is due to run, and what its
                 \* last run scheduled
    timeouts,    \* the pending timers of the reveal effect
    loads        \* the loadQuestionById invocations in flight, per slot

askVars == <<config, profiles, tags, questions, answers, req, asks, askLog>>

voteVars == <<votesTable, votes, nextVoteId, calls, hist>>

fnVars == <<runs, gen, tagCall>>

cmtVars == <<comments, dels>>

clientVars == <<ui, effect, timeouts, loads>>

vars == <<config, profiles, tags, questions, answers, req, asks, askLog,
          votesTable, votes, nextVoteId, calls, hist, runs, gen, tagCall,
          comments, dels, ui, effect, timeouts, loads>>

\* ----------------------------------------------------------- record shapes
NoMatch == [question_id |-> 0, search_count |-> 0]

NoResp == [status |-> 0, isDuplicate |-> FALSE, qid |-> 0, answers |-> <<>>,
           successfulBots |-> 0, totalBots |-> 0]

\* A bot task: not started, awaiting, or settled with the value it resolved to
\* ({answer, botProfile, error} of generateBotAnswer; error is the class of the
\* message, null when the task succeeded).
\* answer: null
NoAnswer == [question_id |-> 0, user_id |-> NULL]

BotIdle == [st |-> "idle", answer |-> NoAnswer, botProfile |-> NULL, error |-> NULL]
BotRun == [st |-> "run", answer |-> NoAnswer, botProfile |-> NULL, error |-> NULL]
BotSettled(answer, botProfile, error) ==
    [st |-> "settled", answer |-> answer, botProfile |-> botProfile, error |-> error]

IdleReq ==
    [pc |-> "idle", userId |-> NULL, questionUserId |-> NULL, tagIds |-> {},
     tagNames |-> <<>>,
     topMatch |-> NoMatch, resolvedTagIds |-> {}, qid |-> 0,
     bots |-> [i \in BotIdx |-> BotIdle], resp |-> NoResp,
     \* bookkeeping of what this request did (not program state)
     newQ |-> 0, newTags |-> 0, newAns |-> 0, botCalls |-> FALSE, rpcCalls |-> 0,
     rpcOk |-> FALSE, seen |-> 0, before |-> {}, valid |-> FALSE,
     genCalls |-> 0, genFailed |-> FALSE]

AnswerKeys == (1..MaxAsks) \X BotIds

\* ------------------------------------------------------- duplicate detector
\* Number of the submitted tag names that question q carries.
Overlap(q, names) == Cardinality(questions[q].tags \cap Range(names))

Perms(S) ==
    {f \in [1..Cardinality(S) -> S] : \A i, j \in DOMAIN f : i # j => f[i] # f[j]}

\* The stored procedure find_similar_questions(input_tag_names, min_overlap):
\* the questions sharing at least min_overlap of the names, most overlapping
\* first (the order among equals is the implementation's).
find_similar_questions(names, min_overlap) ==
    LET hit == {q \in DOMAIN questions : Overlap(q, names) >= min_overlap}
    IN {f \in Perms(hit) :
          \A i, j \in DOMAIN f : i < j => Overlap(f[i], names) >= Overlap(f[j], names)}

Max(a, b) == IF a > b THEN a ELSE b

\* min_overlap: Math.min(2, tagNames.length)
MinOverlapMax(names) == Max(OverlapCap, Len(names))
MinOverlapOff(names) == OverlapCap + 1
MinOverlap(names) == Min(OverlapCap, Len(names))

\* findSimilarQuestions short-circuits on an empty list, without a store call.
NeedsRpcAlways(names) == TRUE
NeedsRpc(names) == Len(names) # 0

\* ------------------------------------------------------------ answers table
RECURSIVE Rep(_, _)
Rep(x, n) == IF n = 0 THEN <<>> ELSE <<x>> \o Rep(x, n - 1)

RECURSIVE RowsFrom(_, _)
RowsFrom(q, i) ==
    IF i > NumBots THEN <<>>
    ELSE Rep([question_id |-> q, user_id |-> BotId(i), botId |-> NULL],
             answers[<<q, BotId(i)>>]) \o RowsFrom(q, i + 1)

\* getAnswersForQuestion
getAnswersForQuestion(q) == RowsFrom(q, 1)

\* Number of answer rows of question q.
AnswerRows(q) == Len(getAnswersForQuestion(q))

\* ------------------------------------------------- POST /api/ask, by steps
SetReq(s, r) == req' = [req EXCEPT ![s] = r]

\* res.status(status).json({error}): an error response.
ErrorResp(status) == [NoResp EXCEPT !.status = status]

\* The handler returns: the response is recorded and, for the history, the
\* question this request created is marked as coming from a completed request.
Finish(s, r, resp) ==
    /\ SetReq(s, [r EXCEPT !.pc = "done", !.resp = resp])
    /\ askLog' = [q \in DOMAIN askLog |->
                    IF q = r.qid THEN [askLog[q] EXCEPT !.done = TRUE] ELSE askLog[q]]

\* POST /api/config with a non-blank key.
SetConfig ==
    /\ ~config
    /\ config' = TRUE
    /\ UNCHANGED <<profiles, tags, questions, answers, req, asks, askLog, voteVars, fnVars, cmtVars, clientVars>>

\* The request arrives: validation of the body and of the config, then
\* ensureUserProfile, which returns null at once for a missing userId.
Submit(s, blank, userId, tagIds) ==
    /\ req[s].pc \in {"idle", "done"}
    /\ \A s2 \in Slots : s2 < s => req[s2].pc \notin {"idle", "done"}
    /\ asks < MaxAsks
    /\ asks' = asks + 1
    /\ LET r == [IdleReq EXCEPT !.userId = userId, !.tagIds = tagIds,
                                !.before = {q \in DOMAIN askLog : askLog[q].done}]
       IN IF blank \/ ~config
            THEN SetReq(s, [r EXCEPT !.pc = "done", !.resp = ErrorResp(400)])
          ELSE IF userId = NULL
            THEN SetReq(s, [r EXCEPT !.pc = "done", !.valid = TRUE,
                                     !.resp = ErrorResp(401)])
          ELSE SetReq(s, [r EXCEPT !.pc = "ensureUserProfile", !.valid = TRUE])
    /\ UNCHANGED <<config, profiles, tags, questions, answers, askLog, voteVars, fnVars, cmtVars, clientVars>>

\* ensureUserProfile for the asker: getProfile, then upsertProfile when the
\* profile is missing; a failed upsert yields null and the handler answers 401.
\* if (!questionUserId) return res.status(401)
AskerCheckOff(r, questionUserId) ==
    [r EXCEPT !.pc = IF r.tagIds # {} THEN "selectTags" ELSE "generateTags",
              !.questionUserId = questionUserId]
AskerCheck(r, questionUserId) ==
    IF questionUserId = NULL
      THEN [r EXCEPT !.pc = "done", !.resp = ErrorResp(401)]
    ELSE [r EXCEPT !.pc = IF r.tagIds # {} THEN "selectTags" ELSE "generateTags",
                   !.questionUserId = questionUserId]

EnsureUserProfile(s, created) ==
    LET r == req[s]
    IN /\ r.pc = "ensureUserProfile"
       /\ IF created
            THEN /\ profiles' = WithProfile(profiles, r.userId)
                 /\ SetReq(s, AskerCheck(r, r.userId))
          ELSE /\ SetReq(s, AskerCheck(r, NULL))
               /\ UNCHANGED profiles
       /\ UNCHANGED <<config, tags, questions, answers, asks, askLog, voteVars, fnVars, cmtVars, clientVars>>

\* After the tag names are known: findSimilarQuestions(tagNames) returns []
\* at once for an empty list, otherwise it awaits the stored procedure.
AfterTags(r, names) ==
    [r EXCEPT !.tagNames = names,
              !.pc = IF NeedsRpc(names) THEN "rpc" ELSE "getOrCreateTags"]

\* tagIds given: the names of the selected tags are read from the store
\* (data is null on a store error, and the list is then empty).
SelectTags(s, ok) ==
    LET r == req[s]
    IN /\ r.pc = "selectTags"
       /\ SetReq(s, AfterTags(r, IF ok THEN SelectedNames(tags, r.tagIds) ELSE <<>>))
       /\ UNCHANGED <<config, profiles, tags, questions, answers, asks, askLog, voteVars, fnVars, cmtVars, clientVars>>

\* What the tag-generation model call can come to: it raises, or its text is
\* not JSON, or the JSON is not an array of strings, or it is the list `tags`.
ReplyKinds == {"throws", "unparsable", "notStrings", "ok"}

TagReply(kind, list) == [kind |-> kind, tags |-> list]

TagReplies(lists) ==
    {TagReply("ok", l) : l \in lists}
      \cup {TagReply(k, <<>>) : k \in ReplyKinds \ {"ok"}}

\* generateTags: [] when the call or the parse fails or the value is not an
\* array of strings, the list otherwise (lowercased, cut at 5: the lists of
\* the model are lowercase and shorter).
generateTagsDefault(reply) ==
    IF reply.kind = "ok"
      THEN SubSeq([i \in DOMAIN reply.tags |-> Lower(reply.tags[i])],
                  1, Min(TagCut, Len(reply.tags)))
    ELSE <<"css">>
generateTags(reply) ==
    IF reply.kind = "ok"
      THEN SubSeq([i \in DOMAIN reply.tags |-> Lower(reply.tags[i])],
                  1, Min(TagCut, Len(reply.tags)))
    ELSE <<>>

\* No tagIds: the handler awaits generateTags.
GenerateTags(s, reply) ==
    LET r == req[s]
        r1 == [r EXCEPT !.genCalls = @ + 1, !.genFailed = reply.kind # "ok"]
    IN /\ r.pc = "generateTags"
       /\ SetReq(s, AfterTags(r1, generateTags(reply)))
       /\ UNCHANGED <<config, profiles, tags, questions, answers, asks, askLog, voteVars, fnVars, cmtVars, clientVars>>

\* if (similarQuestions.length > 0): the duplicate path, with the first row as
\* topMatch; otherwise the handler goes on to create the question.
RpcResultNoReturn(r, sim) ==
    IF Len(sim) > 0
      THEN [r EXCEPT !.pc = "getOrCreateTags",
                     !.topMatch = [question_id |-> sim[1],
                                   search_count |-> questions[sim[1]].search_count]]
    ELSE [r EXCEPT !.pc = "getOrCreateTags"]
RpcResult(r, sim) ==
    IF Len(sim) > 0
      THEN [r EXCEPT !.pc = "dupUpdate",
                     !.topMatch = [question_id |-> sim[1],
                                   search_count |-> questions[sim[1]].search_count]]
    ELSE [r EXCEPT !.pc = "getOrCreateTags"]

\* findSimilarQuestions: the stored procedure answers (or errors, which the
\* code turns into []).
Rpc(s, ok) ==
    LET r == req[s]
        r1 == [r EXCEPT !.rpcCalls = @ + 1, !.rpcOk = ok, !.seen = Len(questions)]
    IN /\ r.pc = "rpc"
       /\ \E sim \in IF ok THEN find_similar_questions(r.tagNames, MinOverlap(r.tagNames))
                     ELSE {<<>>} :
            SetReq(s, RpcResult(r1, sim))
       /\ UNCHANGED <<config, profiles, tags, questions, answers, asks, askLog, voteVars, fnVars, cmtVars, clientVars>>

\* Duplicate path: update questions set search_count = topMatch.search_count + 1
\* where id = topMatch.question_id (the result of the update is not inspected).
\* update({ search_count: topMatch.search_count + 1 })
NextSearchCountTwice(topMatch) == topMatch.search_count + 2
NextSearchCount(topMatch) == topMatch.search_count + 1

DupUpdate(s, ok) ==
    LET r == req[s]
        q == r.topMatch.question_id
    IN /\ r.pc = "dupUpdate"
       /\ questions' = IF ok
                         THEN [questions EXCEPT ![q].search_count = NextSearchCount(r.topMatch)]
                       ELSE questions
       /\ askLog' = IF ok THEN [askLog EXCEPT ![q].dups = @ + 1] ELSE askLog
       /\ SetReq(s, [r EXCEPT !.pc = "dupAnswers"])
       /\ UNCHANGED <<config, profiles, tags, answers, asks, voteVars, fnVars, cmtVars, clientVars>>

\* Duplicate path: the existing answers are fetched and the response is sent.
DupAnswers(s, ok) ==
    LET r == req[s]
        q == r.topMatch.question_id
        existingAnswers == IF ok THEN getAnswersForQuestion(q) ELSE <<>>
    IN /\ r.pc = "dupAnswers"
       /\ Finish(s, r, [status |-> 200, isDuplicate |-> TRUE, qid |-> q,
                        answers |-> existingAnswers,
                        successfulBots |-> 0, totalBots |-> 0])
       /\ UNCHANGED <<config, profiles, tags, questions, answers, asks, voteVars, fnVars, cmtVars, clientVars>>

\* getOrCreateTags(tagNames): the existing tags, then the newly inserted ones;
\* when the insert fails only the existing ones (none when the select failed).
NewTagNames(table, names) == SelectSeq(names, LAMBDA n : n \notin table)

HasRepeat(l) == \E i, j \in DOMAIN l : i # j /\ l[i] = l[j]

\* The function itself: the rows it inserts and the tags it returns.  Names
\* are matched as they are given (.in('name', tagNames), includes(name)).
getOrCreateTags(table, names, ok) ==
    LET existing == Range(names) \cap table
        new == NewTagNames(table, names)
        inserted == IF ok /\ ~HasRepeat(new) THEN Range(new) ELSE {}
    IN [inserted |-> inserted,
        result |-> IF Len(new) > 0 THEN existing \cup inserted
                   ELSE IF ok THEN existing ELSE {}]

GetOrCreateTags(s, ok) ==
    LET r == req[s]
        got == getOrCreateTags(tags, r.tagNames, ok)
    IN /\ r.pc = "getOrCreateTags"
       /\ tags' = tags \cup got.inserted
       /\ SetReq(s, [r EXCEPT !.pc = "createQuestion",
                              !.newTags = @ + Cardinality(got.inserted),
                              !.resolvedTagIds = IF r.tagIds # {} THEN r.tagIds
                                                 ELSE got.result])
       /\ UNCHANGED <<config, profiles, questions, answers, asks, askLog, voteVars, fnVars, cmtVars, clientVars>>

\* generateBotAnswer up to its first await: without a configured key the task
\* resolves at once with no answer.
StartBot == IF config THEN BotRun ELSE BotSettled(NoAnswer, NULL, "noKey")

\* db.createQuestion, then the fan-out: the question row is inserted (a failed
\* insert answers 500), its tags are linked (a failed link is only logged),
\* and BOT_PERSONALITIES.map starts the five bot tasks in the same turn.
CreateQuestion(s, ok, linked) ==
    LET r == req[s]
        q == Len(questions) + 1
        rowTags == IF linked /\ r.resolvedTagIds \subseteq tags THEN r.resolvedTagIds ELSE {}
    IN /\ r.pc = "createQuestion"
       /\ IF ok
            THEN /\ questions' = Append(questions, [user_id |-> r.userId, tags |-> rowTags,
                                                    search_count |-> 0])
                 /\ askLog' = Append(askLog, [tagSet |-> Range(r.tagNames), done |-> FALSE,
                                                  dups |-> 0])
                 /\ SetReq(s, [r EXCEPT !.pc = "fanout", !.qid = q, !.newQ = @ + 1,
                                        !.bots = [i \in BotIdx |-> StartBot]])
          ELSE /\ linked
               /\ Finish(s, r, ErrorResp(500))
               /\ UNCHANGED questions
       /\ UNCHANGED <<config, profiles, tags, answers, asks, voteVars, fnVars, cmtVars, clientVars>>

\* createAnswer writing the row under the next question id.
createAnswerNext(questionId, userId) ==
    [question_id |-> (questionId % MaxAsks) + 1, user_id |-> userId]

\* db.createAnswer: the inserted row.
createAnswer(questionId, userId) == [question_id |-> questionId, user_id |-> userId]

\* The classes of the message of an upstream error, as the catch block of the
\* handler tells them apart; "noAnswer" stands for a message of no class.
ErrorClasses == {"auth", "quota", "notFound", "noAnswer"}

\* One bot task runs to its end: the profile is resolved (created when
\* missing), the models are tried, the answer is saved.  outcome:
\*   "noProfile"  the profile could be neither read nor created
\*   "noAnswer"   no text was generated, the last model raising an error of no
\*                class the handler knows (or the text was empty), or the
\*                insert of the answer failed
\*   "quota", "auth", "notFound"
\*                no text was generated, the last model raising an error of
\*                that class
\*   "ok"         the answer row was inserted
BotSettle(s, i, outcome) ==
    LET r == req[s]
        bot == BotId(i)
        saved == createAnswer(r.qid, bot)
    IN /\ r.bots[i].st = "run"
       /\ CASE outcome = "noProfile" ->
                 /\ SetReq(s, [r EXCEPT !.bots[i] = BotSettled(NoAnswer, NULL, "profile")])
                 /\ UNCHANGED <<profiles, answers>>
            [] outcome \in ErrorClasses ->
                 /\ profiles' = WithProfile(profiles, bot)
                 /\ SetReq(s, [r EXCEPT !.bots[i] = BotSettled(NoAnswer, bot, outcome),
                                        !.botCalls = TRUE])
                 /\ UNCHANGED answers
            [] outcome = "ok" ->
                 /\ profiles' = WithProfile(profiles, bot)
                 /\ answers' = [answers EXCEPT ![<<saved.question_id, saved.user_id>>] = @ + 1]
                 /\ SetReq(s, [r EXCEPT !.bots[i] = BotSettled(saved, bot, NULL),
                                        !.botCalls = TRUE, !.newAns = @ + 1])
       /\ UNCHANGED <<config, tags, questions, asks, askLog, voteVars, fnVars, cmtVars, clientVars>>

\* Promise.allSettled: the handler resumes when every task has settled.
AnySettled(bots) == \E i \in BotIdx : bots[i].st = "settled"
AllSettled(bots) == \A i \in BotIdx : bots[i].st = "settled"

\* botAnswers.forEach((result, index) => ...): the successes, each paired
\* with the personality at its index.
SuccessIdx(bots) ==
    SelectSeq([i \in BotIdx |-> i],
              LAMBDA i : bots[i].answer # NoAnswer /\ bots[i].botProfile # NULL)

BotOfShifted(idx, k) == BotId(k)
BotOf(idx, k) == BotId(idx[k])

CollectAnswers(bots) ==
    LET idx == SuccessIdx(bots)
    IN [k \in 1..Len(idx) |->
          [question_id |-> bots[idx[k]].answer.question_id,
           user_id |-> bots[idx[k]].answer.user_id,
           botId |-> BotOf(idx, k)]]

\* if (answers.length === 0)
NoBotSucceededNever(list) == FALSE
NoBotSucceeded(list) == Len(list) = 0

\* The end of the handler: 500 when no bot succeeded, else the answers.
Respond(s) ==
    LET r == req[s]
        list == CollectAnswers(r.bots)
    IN /\ r.pc = "fanout"
       /\ AllSettled(r.bots)
       /\ IF NoBotSucceeded(list)
            THEN Finish(s, r, ErrorResp(500))
          ELSE Finish(s, r, [status |-> 200, isDuplicate |-> FALSE, qid |-> r.qid,
                             answers |-> list, successfulBots |-> Len(list),
                             totalBots |-> NumBots])
       /\ UNCHANGED <<config, profiles, tags, questions, answers, asks, voteVars, fnVars, cmtVars, clientVars>>

\* ---------------------------------------------------------------- votes
Voters == {"u1", "u2"}
QuestionIds == {"q1"}
AnswerIds == {"a1"}
VoteTypes == {"upvote", "downvote"}
CallSlots == 1..MaxCalls

\* createVote / getUserVote returning null.
NoVote == [id |-> 0, user_id |-> NULL, question_id |-> NULL, answer_id |-> NULL,
           vote_type |-> NULL]

\* The rows the query of getUserVote selects.
UserVoteRows(store, userId, questionId, answerId) ==
    IF questionId # NULL
      THEN {v \in store : v.user_id = userId /\ v.question_id = questionId
                          /\ v.answer_id = NULL}
    ELSE IF answerId # NULL
      THEN {v \in store : v.user_id = userId /\ v.answer_id = answerId
                          /\ v.question_id = NULL}
    ELSE {}

\* getUserVote: .single() yields the row when exactly one matches, and an
\* error, which the function turns into null, otherwise.
getUserVote(tableOk, store, userId, questionId, answerId) ==
    LET rows == UserVoteRows(store, userId, questionId, answerId)
    IN IF tableOk /\ Cardinality(rows) = 1 THEN CHOOSE v \in rows : TRUE ELSE NoVote

\* CONSTRAINT votes_item_check
votes_item_check(row) ==
    \/ row.question_id # NULL /\ row.answer_id = NULL
    \/ row.question_id = NULL /\ row.answer_id # NULL

\* idx_votes_user_question_unique and idx_votes_user_answer_unique
UniqueIndexesOff(store, row) == TRUE
UniqueIndexes(store, row) ==
    /\ row.question_id # NULL =>
         ~\E v \in store : v.user_id = row.user_id /\ v.question_id = row.question_id
    /\ row.answer_id # NULL =>
         ~\E v \in store : v.user_id = row.user_id /\ v.answer_id = row.answer_id

\* createVote after getUserVote has returned `existing`: the delete, the
\* update or the insert, and the value returned.  [votes, ret]
WriteVoteKeep(tableOk, store, existing, userId, questionId, answerId, voteType, newId) ==
    LET row == [id |-> newId, user_id |-> userId, question_id |-> questionId,
                answer_id |-> answerId, vote_type |-> voteType]
        old == {v \in store : v.id = existing.id}
    IN IF existing # NoVote
         THEN IF tableOk /\ old # {}
                THEN LET upd == [(CHOOSE v \in old : TRUE) EXCEPT !.vote_type = voteType]
                     IN [votes |-> (store \ old) \cup {upd}, ret |-> upd]
              ELSE [votes |-> store, ret |-> NoVote]
       ELSE IF tableOk /\ votes_item_check(row) /\ UniqueIndexes(store, row)
         THEN [votes |-> store \cup {row}, ret |-> row]
       ELSE [votes |-> store, ret |-> NoVote]
WriteVoteReinsert(tableOk, store, existing, userId, questionId, answerId, voteType, newId) ==
    LET row == [id |-> newId, user_id |-> userId, question_id |-> questionId,
                answer_id |-> answerId, vote_type |-> voteType]
        old == {v \in store : v.id = existing.id}
    IN IF existing # NoVote
         THEN IF existing.vote_type = voteType
                THEN [votes |-> IF tableOk THEN store \ old ELSE store, ret |-> NoVote]
              ELSE IF tableOk /\ old # {}
                THEN [votes |-> (store \ old) \cup {row}, ret |-> row]
              ELSE [votes |-> store, ret |-> NoVote]
       ELSE IF tableOk /\ votes_item_check(row) /\ UniqueIndexes(store, row)
         THEN [votes |-> store \cup {row}, ret |-> row]
       ELSE [votes |-> store, ret |-> NoVote]
WriteVote(tableOk, store, existing, userId, questionId, answerId, voteType, newId) ==
    LET row == [id |-> newId, user_id |-> userId, question_id |-> questionId,
                answer_id |-> answerId, vote_type |-> voteType]
        old == {v \in store : v.id = existing.id}
    IN IF existing # NoVote
         THEN IF existing.vote_type = voteType
                THEN [votes |-> IF tableOk THEN store \ old ELSE store, ret |-> NoVote]
              ELSE IF tableOk /\ old # {}
                THEN LET upd == [(CHOOSE v \in old : TRUE) EXCEPT !.vote_type = voteType]
                     IN [votes |-> (store \ old) \cup {upd}, ret |-> upd]
              ELSE [votes |-> store, ret |-> NoVote]
       ELSE IF tableOk /\ votes_item_check(row) /\ UniqueIndexes(store, row)
         THEN [votes |-> store \cup {row}, ret |-> row]
       ELSE [votes |-> store, ret |-> NoVote]

\* getVoteCounts with the total taken as the number of votes cast.
getVoteCountsCast(tableOk, store, questionId, answerId) ==
    LET rows == IF questionId # NULL
                  THEN {v \in store : v.question_id = questionId /\ v.answer_id = NULL}
                ELSE IF answerId # NULL
                  THEN {v \in store : v.answer_id = answerId /\ v.question_id = NULL}
                ELSE {}
        upvotes == IF tableOk THEN Cardinality({v \in rows : v.vote_type = "upvote"}) ELSE 0
        downvotes == IF tableOk THEN Cardinality({v \in rows : v.vote_type = "downvote"}) ELSE 0
    IN [upvotes |-> upvotes, downvotes |-> downvotes, total |-> upvotes + downvotes]

\* getVoteCounts: counted from the rows at read time; zeros on a store error
\* and when neither id is given.
getVoteCounts(tableOk, store, questionId, answerId) ==
    LET rows == IF questionId # NULL
                  THEN {v \in store : v.question_id = questionId /\ v.answer_id = NULL}
                ELSE IF answerId # NULL
                  THEN {v \in store : v.answer_id = answerId /\ v.question_id = NULL}
                ELSE {}
        upvotes == IF tableOk THEN Cardinality({v \in rows : v.vote_type = "upvote"}) ELSE 0
        downvotes == IF tableOk THEN Cardinality({v \in rows : v.vote_type = "downvote"}) ELSE 0
    IN [upvotes |-> upvotes, downvotes |-> downvotes, total |-> upvotes - downvotes]

\* The question list's vote total (Tabs.tsx): over the rows fetched by
\* question_id, a downvote counts -1 and any other row +1; no rows on a
\* fetch error.
voteTotalMap(tableOk, store, questionId) ==
    LET votesData == IF tableOk THEN {v \in store : v.question_id = questionId} ELSE {}
    IN Cardinality({v \in votesData : v.vote_type # "downvote"})
         - Cardinality({v \in votesData : v.vote_type = "downvote"})

IdleCall == [pc |-> "idle", userId |-> NULL, questionId |-> NULL, answerId |-> NULL,
             voteType |-> NULL, existing |-> NoVote, ret |-> NoVote]

\* A call needs a fresh id only when it inserts.
IdFree == nextVoteId <= MaxVoteIds

\* createVote run from its call to its return with no other call in between.
CreateVoteSeq(userId, questionId, answerId, voteType) ==
    LET existing == getUserVote(votesTable, votes, userId, questionId, answerId)
        w == WriteVote(votesTable, votes, existing, userId, questionId, answerId,
                       voteType, nextVoteId)
    IN /\ IdFree
       /\ votes' = w.votes
       /\ nextVoteId' = IF w.ret # NoVote /\ w.ret.id = nextVoteId
                          THEN nextVoteId + 1 ELSE nextVoteId
       /\ hist' = (IF hist = <<>> THEN <<>> ELSE <<hist[Len(hist)]>>)
                    \o <<[userId |-> userId, questionId |-> questionId,
                          answerId |-> answerId, voteType |-> voteType,
                          before |-> votes, ret |-> w.ret]>>
       /\ UNCHANGED <<votesTable, calls, askVars, fnVars, cmtVars, clientVars>>

\* createVote is called: getUserVote is issued (it returns null at once when
\* neither id is given, but createVote awaits it all the same).
VoteCall(c, userId, questionId, answerId, voteType) ==
    /\ calls[c].pc \in {"idle", "done"}
    /\ \A c2 \in CallSlots : c2 < c => calls[c2].pc \notin {"idle", "done"}
    /\ IdFree
    /\ calls' = [calls EXCEPT ![c] = [IdleCall EXCEPT !.pc = "read", !.userId = userId,
                                        !.questionId = questionId, !.answerId = answerId,
                                        !.voteType = voteType]]
    /\ UNCHANGED <<votesTable, votes, nextVoteId, hist, askVars, fnVars, cmtVars, clientVars>>

\* getUserVote returns.
VoteRead(c) ==
    LET k == calls[c]
    IN /\ k.pc = "read"
       /\ calls' = [calls EXCEPT ![c].pc = "write",
                                 ![c].existing = getUserVote(votesTable, votes, k.userId,
                                                             k.questionId, k.answerId)]
       /\ UNCHANGED <<votesTable, votes, nextVoteId, hist, askVars, fnVars, cmtVars, clientVars>>

\* The delete, update or insert is applied and createVote returns.
VoteWrite(c) ==
    LET k == calls[c]
        w == WriteVote(votesTable, votes, k.existing, k.userId, k.questionId, k.answerId,
                       k.voteType, nextVoteId)
    IN /\ k.pc = "write"
       /\ votes' = w.votes
       /\ nextVoteId' = IF w.ret # NoVote /\ w.ret.id = nextVoteId
                          THEN nextVoteId + 1 ELSE nextVoteId
       /\ calls' = [calls EXCEPT ![c].pc = "done", ![c].existing = NoVote, ![c].ret = w.ret]
       /\ UNCHANGED <<votesTable, hist, askVars, fnVars, cmtVars, clientVars>>

\* Two createVote calls of one user on one target are issued together, from
\* the same store; hist keeps the two calls and that store.
VotePair(userId, questionId, answerId, type1, type2) ==
    LET call(t) == [userId |-> userId, questionId |-> questionId, answerId |-> answerId,
                    voteType |-> t, before |-> votes, ret |-> NoVote]
        started(t) == [IdleCall EXCEPT !.pc = "read", !.userId = userId,
                                       !.questionId = questionId, !.answerId = answerId,
                                       !.voteType = t]
    IN /\ \A c \in CallSlots : calls[c].pc = "idle"
       /\ IdFree
       /\ calls' = [calls EXCEPT ![1] = started(type1), ![2] = started(type2)]
       /\ hist' = <<call(type1), call(type2)>>
       /\ UNCHANGED <<votesTable, votes, nextVoteId, askVars, fnVars, cmtVars, clientVars>>

\* --------------------------------------------------------------- client
\* The questions the user can open and the answers the server holds for them
\* once the bots have answered.
ClientQuestions == {"qA", "qB", "qC"}

AnswersOf == [qA |-> <<"a1", "a2">>, qB |-> <<"b1">>, qC |-> <<"c1", "c2", "c3">>]

QuestionOf == [a1 |-> "qA", a2 |-> "qA", b1 |-> "qB",
               c1 |-> "qC", c2 |-> "qC", c3 |-> "qC"]

\* A response of GET /api/questions/:id/answers: not OK, or a list that is
\* empty while the bots have not answered.
FetchReplies(q) ==
    IF q \in ClientQuestions
      THEN {[ok |-> FALSE, answers |-> <<>>], [ok |-> TRUE, answers |-> <<>>],
            [ok |-> TRUE, answers |-> AnswersOf[q]]}
    ELSE {}

LoadSlots == 1..MaxLoads

\* The React state of App; cache: the questions of the question cache
\* (setCachedQuestion), each with its answers.
InitialUi == [view |-> "ask", currentQuestion |-> NULL, answers |-> <<>>,
              visibleAnswers |-> <<>>, error |-> "", cache |-> {}]

\* due: answers or view has changed and the effect has not run since;
\* shuffled, delays: what its last run scheduled.
NoEffect == [due |-> FALSE, shuffled |-> <<>>, delays |-> <<>>]

\* One invocation of loadQuestionById.  polls: the requests pollForAnswers has
\* issued; delays: the delays of the timers it has set; stopped: what ended
\* it (bookkeeping).
IdleLoad == [pc |-> "idle", questionId |-> NULL, attempt |-> 0, polls |-> 0,
             delays |-> <<>>, stopped |-> ""]

\* The delays of loadQuestionById: before the first poll, between polls.
FirstPollDelay == 1200
PollDelay == 1500

\* pollForAnswers that never gives up.
PollGivesUpNever(attempt) == FALSE

\* if (attempt >= 6) return
PollGivesUp(attempt) == attempt >= PollLimit

\* Math.random() * 2000 lies in [0, 2000): its least value and one next to
\* its upper end.
Jitters == {0, 1999}

\* The delay of the reveal of the entry at position index (from 0) of the
\* shuffled list, random being the value of Math.random() * 2000.
RevealDelay(index, random) ==
    IF index = 0 THEN 1000 ELSE 1000 + (index * 2000) + random

\* shuffleArray: every permutation of the list can come out.
shuffleArray(array) ==
    {[i \in DOMAIN array |-> array[f[i]]] :
       f \in {g \in [DOMAIN array -> DOMAIN array] :
                \A i, j \in DOMAIN array : g[i] = g[j] => i = j}}

\* setView: the reveal effect is due again when the view has changed.
SetView(view) ==
    /\ ui' = [ui EXCEPT !.view = view]
    /\ effect' = IF view # ui.view THEN [effect EXCEPT !.due = TRUE] ELSE effect

SetLoad(l, next) == loads' = [loads EXCEPT ![l] = next]

FreeLoad(l) ==
    /\ loads[l].pc \in {"idle", "done"}
    /\ \A l2 \in LoadSlots : l2 < l => loads[l2].pc \notin {"idle", "done"}

\* The hash changes to #questions/q: checkHash calls loadQuestionById(q),
\* which resets the state and, the question being cached, shows the cached
\* answers, and otherwise fetches the question and its answers.
Navigate(l, q) ==
    LET reset == [ui EXCEPT !.view = "question", !.currentQuestion = NULL,
                            !.answers = <<>>, !.visibleAnswers = <<>>, !.error = ""]
    IN /\ FreeLoad(l)
       /\ IF q \in ui.cache
            THEN /\ ui' = [reset EXCEPT !.currentQuestion = q, !.answers = AnswersOf[q],
                                        !.visibleAnswers = AnswersOf[q]]
                 /\ UNCHANGED loads
          ELSE /\ ui' = reset
               /\ SetLoad(l, [IdleLoad EXCEPT !.pc = "fetch", !.questionId = q])
       /\ effect' = [effect EXCEPT !.due = TRUE]
       /\ UNCHANGED <<timeouts, askVars, voteVars, fnVars, cmtVars>>

\* The hash changes to #questions, #tags or nothing: setView('ask').
LeaveQuestion ==
    /\ ui.view = "question"
    /\ SetView("ask")
    /\ UNCHANGED <<timeouts, loads, askVars, voteVars, fnVars, cmtVars>>

\* The two fetches of loadQuestionById have settled: without the question
\* the load ends, with it the question is shown.
LoadQuestion(l, ok) ==
    LET k == loads[l]
    IN /\ k.pc = "fetch"
       /\ IF ok
            THEN /\ ui' = [ui EXCEPT !.currentQuestion = k.questionId,
                                     !.view = "question"]
                 /\ effect' = IF ui.view # "question"
                                THEN [effect EXCEPT !.due = TRUE] ELSE effect
                 /\ SetLoad(l, [k EXCEPT !.pc = "answers"])
          ELSE /\ SetLoad(l, [k EXCEPT !.pc = "done", !.stopped = "noQuestion"])
               /\ UNCHANGED <<ui, effect>>
       /\ UNCHANGED <<timeouts, askVars, voteVars, fnVars, cmtVars>>

\* The answers response is read: not OK ends the load, an empty list sets
\* the timer of the first poll, a list of answers is shown and cached.
LoadAnswers(l, reply) ==
    LET k == loads[l]
    IN /\ k.pc = "answers"
       /\ IF ~reply.ok
            THEN /\ SetLoad(l, [k EXCEPT !.pc = "done", !.stopped = "notOk"])
                 /\ UNCHANGED <<ui, effect>>
          ELSE IF reply.answers = <<>>
            THEN /\ SetLoad(l, [k EXCEPT !.pc = "wait",
                                         !.delays = Append(@, FirstPollDelay)])
                 /\ UNCHANGED <<ui, effect>>
          ELSE /\ ui' = [ui EXCEPT !.answers = reply.answers,
                                   !.cache = @ \cup {k.questionId}]
               /\ effect' = [effect EXCEPT !.due = TRUE]
               /\ SetLoad(l, [k EXCEPT !.pc = "done", !.stopped = "answers"])
       /\ UNCHANGED <<timeouts, askVars, voteVars, fnVars, cmtVars>>

\* The timer of pollForAnswers fires: it gives up, or it fetches the answers.
PollFire(l) ==
    LET k == loads[l]
    IN /\ k.pc = "wait"
       /\ SetLoad(l, IF PollGivesUp(k.attempt)
                       THEN [k EXCEPT !.pc = "done", !.stopped = "gaveUp"]
                     ELSE [k EXCEPT !.pc = "poll", !.polls = @ + 1])
       /\ UNCHANGED <<ui, effect, timeouts, askVars, voteVars, fnVars, cmtVars>>

\* The response of a poll: not OK ends the polling, an empty list sets the
\* timer of the next attempt, a list of answers is shown and cached.
PollResponse(l, reply) ==
    LET k == loads[l]
    IN /\ k.pc = "poll"
       /\ IF ~reply.ok
            THEN /\ SetLoad(l, [k EXCEPT !.pc = "done", !.stopped = "notOk"])
                 /\ UNCHANGED <<ui, effect>>
          ELSE IF reply.answers = <<>>
            THEN /\ SetLoad(l, [k EXCEPT !.pc = "wait", !.attempt = @ + 1,
                                         !.delays = Append(@, PollDelay)])
                 /\ UNCHANGED <<ui, effect>>
          ELSE /\ ui' = [ui EXCEPT !.answers = reply.answers,
                                   !.visibleAnswers = reply.answers,
                                   !.cache = @ \cup {k.questionId}]
               /\ effect' = [effect EXCEPT !.due = TRUE]
               /\ SetLoad(l, [k EXCEPT !.pc = "done", !.stopped = "answers"])
       /\ UNCHANGED <<timeouts, askVars, voteVars, fnVars, cmtVars>>

\* The reveal effect runs: the cleanup of its last run clears the timers
\* that run had set; then, with no answers, visibleAnswers is emptied; out of
\* the question view nothing is done; otherwise the answers are shuffled,
\* visibleAnswers is emptied and one timer per answer is set.
RevealEffect(shuffled, random) ==
    LET delays == [i \in DOMAIN shuffled |-> RevealDelay(i - 1, random[i])]
    IN /\ effect.due
       /\ IF ui.answers = <<>>
            THEN /\ ui' = [ui EXCEPT !.visibleAnswers = <<>>]
                 /\ timeouts' = {}
                 /\ effect' = NoEffect
          ELSE IF ui.view # "question"
            THEN /\ timeouts' = {}
                 /\ effect' = NoEffect
                 /\ UNCHANGED ui
          ELSE /\ ui' = [ui EXCEPT !.visibleAnswers = <<>>]
               /\ timeouts' = {[answer |-> shuffled[i], delay |-> delays[i]] :
                                 i \in DOMAIN shuffled}
               /\ effect' = [due |-> FALSE, shuffled |-> shuffled, delays |-> delays]
       /\ UNCHANGED <<loads, askVars, voteVars, fnVars, cmtVars>>

\* The pending timer that is due first fires (React runs a due effect, and
\* with it the cleanup, before it applies the update of a timer): the answer
\* is appended to visibleAnswers unless an entry with its id is there.
RevealTimer(t) ==
    /\ ~effect.due
    /\ t \in timeouts
    /\ \A t2 \in timeouts : t.delay <= t2.delay
    /\ ui' = [ui EXCEPT !.visibleAnswers =
                IF \E i \in DOMAIN @ : @[i] = t.answer THEN @ ELSE Append(@, t.answer)]
    /\ timeouts' = timeouts \ {t}
    /\ UNCHANGED <<effect, loads, askVars, voteVars, fnVars, cmtVars>>

\* ------------------------------------------------------------- comments
\* A comment row: its id and its author (the other columns play no part in
\* deleteComment).  Ids are unique.
CommentIds == 1..MaxComments

CommentRows == [id : CommentIds, user_id : Voters]

CommentStores == {c \in SUBSET CommentRows : \A x, y \in c : x.id = y.id => x = y}

NoComment == [id |-> 0, user_id |-> NULL]

DelSlots == 1..MaxDels

\* was, removed: bookkeeping (the row of commentId when the call was made,
\* the rows the call has removed).
IdleDel == [pc |-> "idle", commentId |-> 0, userId |-> NULL, comment |-> NoComment,
            ret |-> FALSE, was |-> NoComment, removed |-> {}]

\* select('user_id').eq('id', commentId).single()
CommentById(store, commentId) ==
    LET rows == {c \in store : c.id = commentId}
    IN IF Cardinality(rows) = 1 THEN CHOOSE c \in rows : TRUE ELSE NoComment

\* The ownership test of deleteComment, passed by everybody.
OwnsAny(comment, userId) == TRUE

\* if (comment.user_id !== userId) return false
Owns(comment, userId) == comment.user_id = userId

\* deleteComment is called: the select is issued.
DelCall(d, commentId, userId) ==
    /\ dels[d].pc \in {"idle", "done"}
    /\ dels' = [dels EXCEPT ![d] = [IdleDel EXCEPT !.pc = "fetch", !.commentId = commentId,
                                      !.userId = userId,
                                      !.was = CommentById(comments, commentId)]]
    /\ UNCHANGED <<comments, askVars, voteVars, fnVars, clientVars>>

\* The select returns: on an error or without a row the call returns false,
\* and so it does when the row is of another user.
DelFetch(d, ok) ==
    LET k == dels[d]
        comment == IF ok THEN CommentById(comments, k.commentId) ELSE NoComment
    IN /\ k.pc = "fetch"
       /\ dels' = [dels EXCEPT ![d] =
                     IF comment = NoComment \/ ~Owns(comment, k.userId)
                       THEN [k EXCEPT !.pc = "done", !.ret = FALSE]
                     ELSE [k EXCEPT !.pc = "delete", !.comment = comment]]
       /\ UNCHANGED <<comments, askVars, voteVars, fnVars, clientVars>>

\* delete().eq('id', commentId) returns: the call returns true unless the
\* store reported an error.
DelDelete(d, ok) ==
    LET k == dels[d]
        rows == IF ok THEN {c \in comments : c.id = k.commentId} ELSE {}
    IN /\ k.pc = "delete"
       /\ comments' = comments \ rows
       /\ dels' = [dels EXCEPT ![d] = [k EXCEPT !.pc = "done", !.ret = ok,
                                               !.removed = rows]]
       /\ UNCHANGED <<askVars, voteVars, fnVars, clientVars>>

\* --------------------------------------------------- direct function calls
\* getOrCreateTags called by itself with any names, case variants included.
NoTagCall == [names |-> <<>>, ok |-> TRUE, before |-> {}, result |-> {}, n |-> 0]

CallNames == TagNames \cup CaseNames

CallLists == UNION {[1..n -> CallNames] : n \in 1..MaxCallNames}

GetOrCreateTagsCall(names, ok) ==
    LET got == getOrCreateTags(tags, names, ok)
    IN /\ tags' = tags \cup got.inserted
       /\ tagCall' = [names |-> names, ok |-> ok, before |-> tags,
                      result |-> got.result,
                      n |-> IF tagCall.n = 0 THEN 1 ELSE 2]
       /\ UNCHANGED <<config, profiles, questions, answers, req, asks, askLog,
                      voteVars, runs, gen, cmtVars, clientVars>>

\* ------------------------------------------------------------ bot profiles
RunSlots == 1..MaxRuns

\* A run: of initializeBotProfiles ("init", over the personalities in order)
\* or of the profile part of generateBotAnswer for one personality ("answer").
\* found: a lookup of this run returned the row of the present bot;
\* wrote: rows this run inserted for the present bot (both for the record).
IdleRun == [kind |-> "idle", pc |-> "idle", bot |-> 0, found |-> FALSE, wrote |-> 0]

\* db.getProfile: .single() yields the row when exactly one has the id; a
\* store error and "no row" both come back as null.
getProfile(table, id, ok) == ok /\ table[id] = 1

\* The primary key of profiles: an insert of an id that has a row is refused
\* with error 23505.
profiles_pkeyOff(table, id) == TRUE
profiles_pkey(table, id) == table[id] = 0

SetRun(n, r) == runs' = [runs EXCEPT ![n] = r]

\* POST /api/bots/initialize, or the call at startup.
StartInit(n) ==
    /\ runs[n].kind = "idle"
    /\ \A m \in RunSlots : m < n => runs[m].kind # "idle"
    /\ SetRun(n, [IdleRun EXCEPT !.kind = "init", !.pc = "get1", !.bot = 1])
    /\ UNCHANGED <<askVars, voteVars, gen, tagCall, cmtVars, clientVars>>

\* generateBotAnswer for personality i, up to its first await.
StartAnswer(n, i) ==
    /\ config
    /\ runs[n].kind = "idle"
    /\ \A m \in RunSlots : m < n => runs[m].kind # "idle"
    /\ SetRun(n, [IdleRun EXCEPT !.kind = "answer", !.pc = "get0", !.bot = i])
    /\ UNCHANGED <<askVars, voteVars, gen, tagCall, cmtVars, clientVars>>

\* ensureUserProfile has returned (with an id, or with null) to its caller:
\* initializeBotProfiles goes on to the next personality, generateBotAnswer
\* reads the profile back when it got an id.
Returned(r, gotId) ==
    IF r.kind = "init"
      THEN IF r.bot = NumBots THEN IdleRun
           ELSE [IdleRun EXCEPT !.kind = "init", !.pc = "get1", !.bot = r.bot + 1]
    ELSE IF gotId THEN [r EXCEPT !.pc = "get4"] ELSE IdleRun

\* A db.getProfile returns:
\*   get0  generateBotAnswer, line 227      get1  ensureUserProfile, line 150
\*   get2  upsertAIProfile, line 121        get3  upsertAIProfile, after 23505
\*   get4  generateBotAnswer, line 244
RunGet(n, ok) ==
    LET r == runs[n]
        hit == getProfile(profiles, BotId(r.bot), ok)
        seen == [r EXCEPT !.found = hit]
    IN /\ r.pc \in {"get0", "get1", "get2", "get3", "get4"}
       /\ SetRun(n, CASE r.pc = "get0" -> IF hit THEN IdleRun ELSE [r EXCEPT !.pc = "get1"]
                      [] r.pc = "get1" -> IF hit THEN Returned(seen, TRUE)
                                          ELSE [r EXCEPT !.pc = "get2"]
                      [] r.pc = "get2" -> IF hit THEN Returned(seen, TRUE)
                                          ELSE [r EXCEPT !.pc = "insert"]
                      [] r.pc = "get3" -> Returned(r, hit)
                      [] r.pc = "get4" -> IdleRun)
       /\ UNCHANGED <<askVars, voteVars, gen, tagCall, cmtVars, clientVars>>

\* upsertAIProfile's insert returns: the row, or error 23505 when the id has a
\* row (the profile is then read again), or another error (a missing
\* auth.users row, the store failing), which yields null.
RunInsert(n, ok) ==
    LET r == runs[n]
        id == BotId(r.bot)
    IN /\ r.pc = "insert"
       /\ IF ~ok
            THEN SetRun(n, Returned(r, FALSE)) /\ UNCHANGED profiles
          ELSE IF profiles_pkey(profiles, id)
            THEN /\ profiles' = [profiles EXCEPT ![id] = @ + 1]
                 /\ SetRun(n, Returned([r EXCEPT !.wrote = @ + 1], TRUE))
          ELSE SetRun(n, [r EXCEPT !.pc = "get3"]) /\ UNCHANGED profiles
       /\ UNCHANGED <<config, tags, questions, answers, req, asks, askLog,
                      voteVars, gen, tagCall, cmtVars, clientVars>>

\* ------------------------------------------- generateBotAnswer, the models
\* modelsToTry, in the order of the loop.
modelsToTry ==
    <<"gemma-3-12b-it", "gemini-2.5-flash", "gemini-2.5-flash-lite",
      "gemini-2.0-flash", "gemini-2.0-flash-lite">>

\* response.text() of a model that returned: some text, or the empty string.
TEXT == "text"
EMPTY == ""

\* What one model call can come to: it returns (with text or with none) or it
\* raises an error whose message is of one of the classes.
ModelReplies == {TEXT, EMPTY} \cup ErrorClasses

\* if (!answer): null and the empty string are both falsy.
Falsy(answer) == answer \in {NULL, EMPTY}

\* One call of generateBotAnswer, its profile resolved.  called: the models
\* called so far, in order; replies: what each came to (for the record).
IdleGen == [pc |-> "idle", k |-> 1, called |-> <<>>, replies |-> <<>>,
            answer |-> NULL, lastError |-> NULL, saved |-> FALSE, error |-> NULL]

\* generateBotAnswer is called: without a configured key it returns at once.
GenStart ==
    /\ gen.pc \in {"idle", "done"}
    /\ gen' = IF config THEN [IdleGen EXCEPT !.pc = "models"]
              ELSE [IdleGen EXCEPT !.pc = "done", !.error = "noKey"]
    /\ UNCHANGED <<askVars, voteVars, runs, tagCall, cmtVars, clientVars>>

\* The loop has ended (break, or the list is exhausted): without an answer
\* the call returns {answer: null, error}, with one it goes on to save it.
AfterLoop(g) ==
    IF Falsy(g.answer)
      THEN [g EXCEPT !.pc = "done",
                     !.error = IF g.lastError = NULL THEN "noAnswer" ELSE g.lastError]
    ELSE [g EXCEPT !.pc = "save"]

\* model.generateContent for modelsToTry[k] settles.
GenTry(reply) ==
    LET g == [gen EXCEPT !.called = Append(@, modelsToTry[gen.k]),
                         !.replies = Append(@, reply)]
    IN /\ gen.pc = "models"
       /\ gen' = IF reply \in ErrorClasses
                   THEN IF gen.k = Len(modelsToTry)
                          THEN AfterLoop([g EXCEPT !.lastError = reply])
                        ELSE [g EXCEPT !.lastError = reply, !.k = @ + 1]
                 ELSE AfterLoop([g EXCEPT !.answer = reply])
       /\ UNCHANGED <<askVars, voteVars, runs, tagCall, cmtVars, clientVars>>

\* db.createAnswer returns the row, or null when the insert failed.
GenSave(ok) ==
    /\ gen.pc = "save"
    /\ gen' = [gen EXCEPT !.pc = "done", !.saved = ok]
    /\ UNCHANGED <<askVars, voteVars, runs, tagCall, cmtVars, clientVars>>

\* The catch block of the handler: the status it answers for an error whose
\* message is of the class.
CatchStatus(class) ==
    CASE class = "auth" -> 401
      [] class = "quota" -> 429
      [] class = "notFound" -> 400
      [] OTHER -> 500

\* ------------------------------------------------------------ specification
\* The state when the server starts to serve: no request in flight, a store
\* with no question, tag, answer or vote.  seeded: the bot profiles are in the
\* store (an earlier start created them); tableOk: the votes migration was run.
InitWith(seeded, tableOk, rows) ==
    /\ config \in BOOLEAN
    /\ profiles = [id \in ProfileIds |-> IF seeded /\ id \in BotIds THEN 1 ELSE 0]
    /\ tags = {}
    /\ questions = <<>>
    /\ answers = [k \in AnswerKeys |-> 0]
    /\ req = [s \in Slots |-> IdleReq]
    /\ asks = 0
    /\ askLog = <<>>
    /\ votesTable = tableOk
    /\ votes = {}
    /\ nextVoteId = 1
    /\ calls = [c \in CallSlots |-> IdleCall]
    /\ hist = <<>>
    /\ runs = [n \in RunSlots |-> IdleRun]
    /\ gen = IdleGen
    /\ tagCall = NoTagCall
    /\ comments = rows
    /\ dels = [d \in DelSlots |-> IdleDel]
    /\ ui = InitialUi
    /\ effect = NoEffect
    /\ timeouts = {}
    /\ loads = [l \in LoadSlots |-> IdleLoad]

InitState(seeded, tableOk) == InitWith(seeded, tableOk, {})

Init == InitState(TRUE, TRUE)

\* The outcomes of a bot task.
Outcomes == {"noProfile", "noAnswer", "ok"}

\* SpecAsk: requests with every tag input, one at a time.  Its environment
\* lets only the first personality's model call succeed, and the five tasks
\* end in the order of the personalities (SpecFan has every outcome of every
\* bot in every order).
AskOutcomes(i) == IF i = 1 THEN {"noAnswer", "ok"} ELSE {"noAnswer"}

InOrder(s, i) == \A j \in BotIdx : j < i => req[s].bots[j].st = "settled"

NextAsk ==
    \/ SetConfig
    \/ \E blank \in BOOLEAN, u \in Users \cup {NULL}, t \in SUBSET TagNames :
         asks < MaxSeqAsks /\ Submit(1, blank, u, t)
    \/ \E ok \in BOOLEAN : EnsureUserProfile(1, ok)
    \/ \E ok \in BOOLEAN : SelectTags(1, ok)
    \/ \E reply \in TagReplies(GenLists) : GenerateTags(1, reply)
    \/ \E ok \in BOOLEAN : Rpc(1, ok)
    \/ \E ok \in BOOLEAN : DupUpdate(1, ok)
    \/ \E ok \in BOOLEAN : DupAnswers(1, ok)
    \/ \E ok \in BOOLEAN : GetOrCreateTags(1, ok)
    \/ \E ok \in BOOLEAN, linked \in BOOLEAN : CreateQuestion(1, ok, linked)
    \/ \E i \in BotIdx : \E o \in AskOutcomes(i) : InOrder(1, i) /\ BotSettle(1, i, o)
    \/ Respond(1)

SpecAsk == Init /\ [][NextAsk]_vars

\* SpecRace: up to MaxInFlight requests at once, interleaved at every await.
\* Its environment: every request is valid and carries no tagIds, the
\* tag-generation model returns one of two lists, and no store call fails
\* but the update of search_count.
RaceLists == {<<"css", "html">>, <<"css">>}

NextRace ==
    \/ SetConfig
    \/ \E s \in Slots, u \in Users : Submit(s, FALSE, u, {})
    \/ \E s \in Slots : EnsureUserProfile(s, TRUE)
    \/ \E s \in Slots, out \in RaceLists : GenerateTags(s, TagReply("ok", out))
    \/ \E s \in Slots : Rpc(s, TRUE)
    \/ \E s \in Slots, ok \in BOOLEAN : DupUpdate(s, ok)
    \/ \E s \in Slots : DupAnswers(s, TRUE)
    \/ \E s \in Slots : GetOrCreateTags(s, TRUE)
    \/ \E s \in Slots : CreateQuestion(s, TRUE, TRUE)
    \/ \E s \in Slots, i \in BotIdx : \E o \in AskOutcomes(i) :
         InOrder(s, i) /\ BotSettle(s, i, o)
    \/ \E s \in Slots : Respond(s)

SpecRace == Init /\ [][NextRace]_vars

\* SpecFan: the fan-out in full.  Requests come one at a time and carry no
\* tags (so none is a duplicate); every bot task can end in every outcome, in
\* every order.
NextFan ==
    \/ SetConfig
    \/ \E blank \in BOOLEAN, u \in Users \cup {NULL} :
         asks < MaxFanAsks /\ Submit(1, blank, u, {})
    \/ \E ok \in BOOLEAN : EnsureUserProfile(1, ok)
    \/ GenerateTags(1, TagReply("ok", <<>>))
    \/ \E ok \in BOOLEAN : GetOrCreateTags(1, ok)
    \/ \E ok \in BOOLEAN, linked \in BOOLEAN : CreateQuestion(1, ok, linked)
    \/ \E i \in BotIdx, o \in Outcomes : BotSettle(1, i, o)
    \/ Respond(1)

SpecFan == Init /\ [][NextFan]_vars

\* SpecVoteSeq: createVote calls one after the other, with any arguments.
VoteArgs == Voters \X (QuestionIds \cup {NULL}) \X (AnswerIds \cup {NULL}) \X VoteTypes

NextVoteSeq ==
    \E a \in VoteArgs : CreateVoteSeq(a[1], a[2], a[3], a[4])

SpecVoteSeq == Init /\ [][NextVoteSeq]_vars

\* SpecVote: up to MaxCalls createVote calls at once, interleaved at the two
\* awaits of createVote.
NextVote ==
    \/ \E c \in CallSlots, a \in VoteArgs :
         VoteCall(c, a[1], a[2], a[3], a[4])
    \/ \E c \in CallSlots : VoteRead(c)
    \/ \E c \in CallSlots : VoteWrite(c)

SpecVote == Init /\ [][NextVote]_vars

\* SpecPair: votes are cast one after the other, then two calls of one user
\* on one target run concurrently, interleaved at the two awaits of createVote.
NextPair ==
    \/ /\ \A c \in CallSlots : calls[c].pc = "idle"
       /\ \E a \in VoteArgs : CreateVoteSeq(a[1], a[2], a[3], a[4])
    \/ \E u \in Voters, q \in QuestionIds, t1, t2 \in VoteTypes : VotePair(u, q, NULL, t1, t2)
    \/ \E u \in Voters, a \in AnswerIds, t1, t2 \in VoteTypes : VotePair(u, NULL, a, t1, t2)
    \/ \E c \in CallSlots : VoteRead(c)
    \/ \E c \in CallSlots : VoteWrite(c)

SpecPair == Init /\ [][NextPair]_vars

\* SpecErr: one request at a time, every bot task ending in every outcome,
\* upstream errors of every class included, in the order of the personalities.
NextErr ==
    \/ SetConfig
    \/ \E u \in Users : asks < MaxErrAsks /\ Submit(1, FALSE, u, {})
    \/ EnsureUserProfile(1, TRUE)
    \/ \E k \in ReplyKinds : GenerateTags(1, TagReply(k, <<>>))
    \/ GetOrCreateTags(1, TRUE)
    \/ CreateQuestion(1, TRUE, TRUE)
    \/ \E i \in BotIdx, o \in ErrorClasses \cup Outcomes :
         InOrder(1, i) /\ BotSettle(1, i, o)
    \/ Respond(1)

SpecErr == Init /\ [][NextErr]_vars

\* SpecGen: generateBotAnswer calls one after the other, each model call
\* coming to any of its ends.
NextGen ==
    \/ SetConfig
    \/ GenStart
    \/ \E reply \in ModelReplies : GenTry(reply)
    \/ \E ok \in BOOLEAN : GenSave(ok)

SpecGen == Init /\ [][NextGen]_vars

\* SpecBots: runs of initializeBotProfiles and of generateBotAnswer's profile
\* part, up to MaxRuns at once, on a store that has no bot profile yet.
InitFresh == InitState(FALSE, TRUE)

NextBots ==
    \/ \E n \in RunSlots : StartInit(n)
    \/ \E n \in RunSlots, i \in BotIdx : StartAnswer(n, i)
    \/ \E n \in RunSlots, ok \in BOOLEAN : RunGet(n, ok)
    \/ \E n \in RunSlots, ok \in BOOLEAN : RunInsert(n, ok)

SpecBots == InitFresh /\ [][NextBots]_vars

\* SpecTags: direct calls of getOrCreateTags, one after the other.
NextTags ==
    \E names \in CallLists, ok \in BOOLEAN : GetOrCreateTagsCall(names, ok)

SpecTags == Init /\ [][NextTags]_vars

\* SpecStore: createVote calls one after the other on a store whose votes
\* table may be missing (the migration was not run).
\* SpecComments: deleteComment calls on any table of comments, interleaved
\* at the two awaits of deleteComment, the store failing or not.
InitComments == \E rows \in CommentStores : InitWith(TRUE, TRUE, rows)

NextComments ==
    \/ \E d \in DelSlots, c \in CommentIds, u \in Voters : DelCall(d, c, u)
    \/ \E d \in DelSlots, ok \in BOOLEAN : DelFetch(d, ok)
    \/ \E d \in DelSlots, ok \in BOOLEAN : DelDelete(d, ok)

SpecComments == InitComments /\ [][NextComments]_vars

\* Math.random() returning 0 at every call.
NoJitter(n) == [i \in 1..n |-> 0]

RandomLists(n) == [1..n -> Jitters]

\* The replies of a server that has the answers of the question.
Answered(q) == {reply \in FetchReplies(q) : ~reply.ok \/ reply.answers # <<>>}

\* SpecClient: the user opens two questions and leaves the question view
\* while loads, polls and reveal timers are under way.  The server answers
\* the first fetch of a load in any of its ways and has the answers by the
\* first poll; Math.random() returns 0 in the delays.
NextClient ==
    \/ \E l \in LoadSlots, q \in {"qA", "qB"} : Navigate(l, q)
    \/ LeaveQuestion
    \/ \E l \in LoadSlots, ok \in BOOLEAN : LoadQuestion(l, ok)
    \/ \E l \in LoadSlots : \E reply \in FetchReplies(loads[l].questionId) :
         LoadAnswers(l, reply)
    \/ \E l \in LoadSlots : PollFire(l)
    \/ \E l \in LoadSlots : \E reply \in Answered(loads[l].questionId) :
         PollResponse(l, reply)
    \/ \E shuffled \in shuffleArray(ui.answers) :
         RevealEffect(shuffled, NoJitter(Len(shuffled)))
    \/ \E t \in timeouts : RevealTimer(t)

SpecClient == Init /\ [][NextClient]_vars

\* SpecReveal: a question of three answers is opened and left, its answers
\* shuffled in every way and revealed with every delay of the model.
NextReveal ==
    \/ \E l \in LoadSlots : Navigate(l, "qC")
    \/ LeaveQuestion
    \/ \E l \in LoadSlots : LoadQuestion(l, TRUE)
    \/ \E l \in LoadSlots : \E reply \in Answered(loads[l].questionId) :
         LoadAnswers(l, reply)
    \/ \E shuffled \in shuffleArray(ui.answers) :
         \E random \in RandomLists(Len(shuffled)) : RevealEffect(shuffled, random)
    \/ \E t \in timeouts : RevealTimer(t)

SpecReveal == Init /\ [][NextReveal]_vars

\* SpecPoll: questions are opened one load at a time, the server answering
\* each fetch and each poll in any of its ways.  Timers fire and responses
\* arrive: every step of a load that can be taken is taken in the end.
NextPoll ==
    \/ \E q \in {"qA", "qB"} : Navigate(1, q)
    \/ \E ok \in BOOLEAN : LoadQuestion(1, ok)
    \/ \E reply \in FetchReplies(loads[1].questionId) : LoadAnswers(1, reply)
    \/ PollFire(1)
    \/ \E reply \in FetchReplies(loads[1].questionId) : PollResponse(1, reply)
    \/ \E shuffled \in shuffleArray(ui.answers) :
         RevealEffect(shuffled, NoJitter(Len(shuffled)))
    \/ \E t \in timeouts : RevealTimer(t)

SpecPoll ==
    /\ Init
    /\ [][NextPoll]_vars
    /\ WF_vars(PollFire(1))
    /\ WF_vars(\E reply \in FetchReplies(loads[1].questionId) : PollResponse(1, reply))

InitStore == \E tableOk \in BOOLEAN : InitState(TRUE, tableOk)

SpecStore == InitStore /\ [][NextVoteSeq]_vars

\* ------------------------------------------------------------------ claims
\* The bots of request r whose task saved an answer.
Succeeded(r) == {i \in BotIdx : r.bots[i].answer # NoAnswer}

\* C1: a request for which findSimilarQuestions reported a question (topMatch
\* is set) creates no question, tag or answer row and starts no bot task, and
\* its response is 200 with isDuplicate: true and the id of the top match.
C1_DuplicateCreatesNothing ==
    \A s \in Slots :
      LET r == req[s]
      IN r.topMatch # NoMatch =>
           /\ r.newQ = 0 /\ r.newTags = 0 /\ r.newAns = 0 /\ ~r.botCalls
           /\ r.qid = 0
           /\ \A i \in BotIdx : r.bots[i] = BotIdle
           /\ r.pc \in {"dupUpdate", "dupAnswers", "done"}
           /\ r.pc = "done" =>
                /\ r.resp.status = 200
                /\ r.resp.isDuplicate
                /\ r.resp.qid = r.topMatch.question_id

\* C1 witness: a request has answered isDuplicate: true for an existing question.
C1_Witness ==
    \E s \in Slots :
      /\ req[s].pc = "done" /\ req[s].resp.isDuplicate
      /\ req[s].resp.qid \in DOMAIN questions
      /\ req[s].topMatch # NoMatch

\* C2: when a non-empty set S of the bots succeeded, the response of the
\* non-duplicate request carries exactly |S| answers, one per bot of S, each
\* with that bot's id as botId and as the answer's user_id, successfulBots is
\* |S|, totalBots is 5, and the question has exactly one answer row per bot
\* of S and none of any other bot.
C2_PartialSuccess ==
    \A s \in Slots :
      LET r == req[s]
          S == Succeeded(r)
      IN (r.pc = "done" /\ r.qid # 0 /\ S # {}) =>
           /\ r.resp.status = 200 /\ ~r.resp.isDuplicate /\ r.resp.qid = r.qid
           /\ Len(r.resp.answers) = Cardinality(S)
           /\ {r.resp.answers[k].botId : k \in DOMAIN r.resp.answers} = {BotId(i) : i \in S}
           /\ \A k \in DOMAIN r.resp.answers :
                /\ r.resp.answers[k].user_id = r.resp.answers[k].botId
                /\ r.resp.answers[k].question_id = r.qid
           /\ r.resp.successfulBots = Cardinality(S)
           /\ r.resp.totalBots = 5
           /\ AnswerRows(r.qid) = Cardinality(S)
           /\ \A i \in BotIdx : answers[<<r.qid, BotId(i)>>] = IF i \in S THEN 1 ELSE 0

\* C2 witness: three bots succeeded, two failed, and the response is sent.
C2_Witness ==
    \E s \in Slots :
      /\ req[s].pc = "done" /\ req[s].qid # 0
      /\ Succeeded(req[s]) = {2, 4, 5}
      /\ req[s].resp.successfulBots = 3

\* C3: when all five bots failed the response is a 500, the question has no
\* answer row, and the question row created by the request is in the store.
C3_AllBotsFail ==
    \A s \in Slots :
      LET r == req[s]
      IN (r.pc = "done" /\ r.qid # 0 /\ Succeeded(r) = {}) =>
           /\ r.resp.status = 500
           /\ AnswerRows(r.qid) = 0
           /\ r.qid \in DOMAIN questions
           /\ questions[r.qid].user_id = r.userId

\* C3 witness: a request created its question, all five tasks failed (some
\* at the profile, some at the model) and the response is sent.
C3_Witness ==
    \E s \in Slots :
      /\ req[s].pc = "done" /\ req[s].qid # 0 /\ Succeeded(req[s]) = {}
      /\ req[s].bots[1].botProfile = NULL /\ req[s].bots[2].botProfile # NULL

\* C4, the states: the five tasks are started together; a task that is still
\* running can save its answer whatever the other four have done; a request
\* that created a question has responded only when all five have settled.
C4_States ==
    \A s \in Slots :
      LET r == req[s]
      IN /\ (\E i \in BotIdx : r.bots[i].st # "idle") =>
              (\A i \in BotIdx : r.bots[i].st # "idle")
         /\ \A i \in BotIdx : r.bots[i].st = "run" => ENABLED BotSettle(s, i, "ok")
         /\ (r.pc = "done" /\ r.qid # 0) => AllSettled(r.bots)

\* C4, the steps: once a request has responded, no step adds or removes an
\* answer row of its question.
C4_Steps ==
    \A s \in Slots :
      (req[s].pc = "done" /\ req[s].qid # 0) =>
         \A i \in BotIdx : answers'[<<req[s].qid, BotId(i)>>] = answers[<<req[s].qid, BotId(i)>>]

\* C4: all five tasks start before any is awaited, no task's failure keeps
\* another from saving its answer, and the response comes after all five have
\* settled, so that no answer row of the question is written after it.
C4_AllSettledFanOut == [](C4_States) /\ [][C4_Steps]_vars

\* C4 witness: the fifth task has saved its answer and the third has failed
\* while the first is still running.
C4_Witness ==
    \E s \in Slots :
      /\ req[s].bots[1].st = "run"
      /\ req[s].bots[3].st = "settled" /\ req[s].bots[3].answer = NoAnswer
      /\ req[s].bots[5].st = "settled" /\ req[s].bots[5].answer # NoAnswer

\* A target of a vote: exactly one of questionId and answerId is given.
ValidTarget(h) ==
    \/ h.questionId # NULL /\ h.answerId = NULL
    \/ h.questionId = NULL /\ h.answerId # NULL

SameTarget(h1, h2) ==
    /\ h1.userId = h2.userId
    /\ h1.questionId = h2.questionId
    /\ h1.answerId = h2.answerId

\* The votes of the caller of h on the target of h, in store.
VotesOn(store, h) == UserVoteRows(store, h.userId, h.questionId, h.answerId)

CountsOf(store, h) == getVoteCounts(TRUE, store, h.questionId, h.answerId)

\* C5: with the votes table in place, two createVote calls one after the
\* other, by the same user on the same target with the same type, starting
\* where the user has no vote on the target: the first inserts one row and
\* returns it, the second deletes it and returns null, and the store and the
\* counts of the target are what they were before the first call.
C5_ToggleRestores ==
    (Len(hist) = 2 /\ ValidTarget(hist[1]) /\ SameTarget(hist[1], hist[2])
       /\ hist[1].voteType = hist[2].voteType
       /\ VotesOn(hist[1].before, hist[1]) = {}) =>
         /\ hist[1].ret # NoVote
         /\ hist[1].ret \notin hist[1].before
         /\ hist[1].ret.vote_type = hist[1].voteType
         /\ hist[2].before = hist[1].before \cup {hist[1].ret}
         /\ hist[2].ret = NoVote
         /\ votes = hist[1].before
         /\ CountsOf(votes, hist[1]) = CountsOf(hist[1].before, hist[1])
         /\ CountsOf(hist[2].before, hist[1]) # CountsOf(hist[1].before, hist[1])

\* C5 witness: a user with no vote on an answer that another user has voted
\* on has voted twice with the same type.
C5_Witness ==
    /\ Len(hist) = 2 /\ ValidTarget(hist[1]) /\ SameTarget(hist[1], hist[2])
    /\ hist[1].voteType = hist[2].voteType
    /\ VotesOn(hist[1].before, hist[1]) = {}
    /\ hist[1].answerId # NULL
    /\ \E v \in hist[1].before : v.answer_id = hist[1].answerId
    /\ hist[2].ret = NoVote

\* C6: with the votes table in place, a vote of type A and then a vote of the
\* other type B by the same user on the same target, starting where the user
\* has no vote on it: afterwards the store holds exactly one vote of the user
\* on the target, of type B, which is the row the first call inserted (same
\* id, nothing but the type changed), and the second call returns it.
C6_SwitchUpdatesInPlace ==
    (Len(hist) = 2 /\ ValidTarget(hist[1]) /\ SameTarget(hist[1], hist[2])
       /\ hist[1].voteType # hist[2].voteType
       /\ VotesOn(hist[1].before, hist[1]) = {}) =>
         /\ hist[1].ret # NoVote
         /\ hist[1].ret.vote_type = hist[1].voteType
         /\ VotesOn(votes, hist[2]) = {hist[2].ret}
         /\ hist[2].ret.vote_type = hist[2].voteType
         /\ hist[2].ret.id = hist[1].ret.id
         /\ hist[2].ret = [hist[1].ret EXCEPT !.vote_type = hist[2].voteType]
         /\ votes = hist[1].before \cup {hist[2].ret}

\* C6 witness: a downvote on a question right after the same user's upvote.
C6_Witness ==
    /\ Len(hist) = 2 /\ SameTarget(hist[1], hist[2])
    /\ hist[1].questionId # NULL /\ hist[1].answerId = NULL
    /\ VotesOn(hist[1].before, hist[1]) = {}
    /\ hist[1].voteType = "upvote" /\ hist[2].voteType = "downvote"
    /\ hist[2].ret # NoVote

\* C7: the store never holds two votes of one user on one question, nor two
\* votes of one user on one answer, however the calls interleave.
C7_OneVotePerUserTarget ==
    \A u \in Voters :
      /\ \A q \in QuestionIds :
           Cardinality({v \in votes : v.user_id = u /\ v.question_id = q}) <= 1
      /\ \A a \in AnswerIds :
           Cardinality({v \in votes : v.user_id = u /\ v.answer_id = a}) <= 1

\* C7 witness: two calls of one user on one target have both read "no vote"
\* and are both about to insert, and one of them has.
C7_Witness ==
    \E c1, c2 \in CallSlots :
      /\ c1 # c2
      /\ calls[c1].pc = "done" /\ calls[c1].ret # NoVote
      /\ calls[c2].pc = "write" /\ calls[c2].existing = NoVote
      /\ calls[c1].userId = calls[c2].userId
      /\ calls[c1].questionId = calls[c2].questionId
      /\ calls[c1].answerId = calls[c2].answerId
      /\ calls[c1].ret \in votes
      /\ calls[c1].ret.id = nextVoteId - 1

\* The tag names of request r are known.
TagsResolved(r) ==
    \/ r.pc \in {"rpc", "dupUpdate", "dupAnswers", "getOrCreateTags", "createQuestion", "fanout"}
    \/ r.pc = "done" /\ r.resp.status \notin {400, 401}

\* C8: a request whose resolved tag list is empty makes no call of the stored
\* procedure, never is on the duplicate path, and goes on to createQuestion:
\* when it has responded it has created its question or answered the 500 of
\* a failed insert of the question or of five failed bots.
C8_EmptyTagsNeverDuplicate ==
    \A s \in Slots :
      LET r == req[s]
      IN (TagsResolved(r) /\ r.tagNames = <<>>) =>
           /\ r.rpcCalls = 0
           /\ r.topMatch = NoMatch
           /\ r.pc \in {"getOrCreateTags", "createQuestion", "fanout", "done"}
           /\ r.pc = "done" =>
                /\ ~r.resp.isDuplicate
                /\ r.newQ = 1 \/ (r.resp.status = 500 /\ r.qid = 0)

\* C8 witness: a request without tags has created the second question while
\* the first one carries tags.
C8_Witness ==
    \E s \in Slots :
      /\ req[s].pc = "fanout" /\ req[s].tagNames = <<>> /\ req[s].qid = 2
      /\ questions[1].tags # {}

\* The questions the stored procedure would report to request r now.
Reported(r) ==
    UNION {Range(sim) : sim \in find_similar_questions(r.tagNames, MinOverlap(r.tagNames))}

\* C9: when the handler calls the stored procedure with a list of n >= 1 tag
\* names, a question is reported only if it shares at least 2 of the names,
\* or at least 1 when n = 1; with n = 1 every question sharing the name is
\* reported, with n >= 2 every question sharing two names is and none
\* sharing exactly one.
C9_OverlapThreshold ==
    \A s \in Slots :
      LET r == req[s]
          n == Len(r.tagNames)
      IN r.pc = "rpc" =>
           /\ n >= 1
           /\ \A q \in DOMAIN questions :
                /\ n = 1 => (q \in Reported(r) <=> Overlap(q, r.tagNames) >= 1)
                /\ n >= 2 => (q \in Reported(r) <=> Overlap(q, r.tagNames) >= 2)
                /\ (n >= 2 /\ Overlap(q, r.tagNames) = 1) => q \notin Reported(r)

\* C9 witness: the procedure is called with three names and reports a
\* question sharing exactly two of them.
C9_Witness ==
    \E s \in Slots :
      /\ req[s].pc = "rpc" /\ Len(req[s].tagNames) = 3
      /\ \E q \in Reported(req[s]) : Overlap(q, req[s].tagNames) = 2

\* The questions that were created, with tag set T, by a request that had
\* returned before request r was submitted.
EarlierSameTags(r) ==
    {q \in r.before : askLog[q].tagSet = Range(r.tagNames)}

OnlySearchCountOf(q) ==
    /\ Len(questions') = Len(questions)
    /\ \A k \in DOMAIN questions :
         /\ questions'[k].user_id = questions[k].user_id
         /\ questions'[k].tags = questions[k].tags
         /\ k # q => questions'[k] = questions[k]

\* A step of the request in slot s while it is on the duplicate path.
DupStep(s) == req'[s] # req[s] /\ req[s].pc \in {"dupUpdate", "dupAnswers"}

C12_OneProfilePerBot ==
    /\ \A i, j \in BotIdx :
         /\ BotId(i) = generateDeterministicUUID(BotKeys[i])
         /\ (BotId(i) = BotId(j)) <=> (BotKeys[i] = BotKeys[j])
    /\ \A b \in BotIds : profiles[b] <= 1
    /\ \A n \in RunSlots :
         /\ runs[n].wrote <= 1
         /\ runs[n].found => (runs[n].wrote = 0 /\ runs[n].pc \notin {"get2", "insert"})

\* C12 witness: two runs found no profile for the same bot and both went on
\* to insert it; one has inserted the row and reads it back, the other's
\* insert was refused and it is about to read the row the first one wrote.
C12_Witness ==
    \E n, m \in RunSlots :
      /\ n # m
      /\ runs[n].kind = "answer" /\ runs[n].pc = "get4" /\ runs[n].wrote = 1
      /\ runs[m].kind = "init" /\ runs[m].pc = "get3"
      /\ runs[m].bot = runs[n].bot
      /\ profiles[BotId(runs[n].bot)] = 1

\* What a request that was refused for want of an asker has done: nothing.
NothingDone(r) ==
    /\ r.newQ = 0 /\ r.newTags = 0 /\ r.newAns = 0 /\ r.qid = 0
    /\ ~r.botCalls /\ r.genCalls = 0 /\ r.rpcCalls = 0
    /\ \A i \in BotIdx : r.bots[i] = BotIdle

\* C13, the claim as stated: a request without userId, or whose asker's
\* profile could be neither found nor created, is answered 401 and has
\* created nothing and called no model.
C13_Original ==
    \A s \in Slots :
      LET r == req[s]
      IN (r.pc = "done"
            /\ (r.userId = NULL \/ (r.valid /\ r.questionUserId = NULL))) =>
           (r.resp.status = 401 /\ NothingDone(r))

\* C13: a request that passed validation (non-blank question, key
\* configured) and has no userId, or whose asker's profile could be neither
\* found nor created, is answered 401 at once and has created no question,
\* tag or answer row and called neither the tag model nor a bot.
C13_NoAskerIs401 ==
    \A s \in Slots :
      LET r == req[s]
      IN /\ (r.valid /\ r.pc \notin {"idle", "ensureUserProfile"}
               /\ r.questionUserId = NULL) =>
              (r.pc = "done" /\ r.resp.status = 401 /\ NothingDone(r))
         /\ (r.valid /\ r.userId = NULL) => r.questionUserId = NULL
         /\ r.questionUserId # NULL => r.questionUserId = r.userId

\* C13 witness: a request with a userId was answered 401 (its profile could
\* not be created) while the store holds a question of an earlier request.
C13_Witness ==
    \E s \in Slots :
      /\ req[s].pc = "done" /\ req[s].valid /\ req[s].userId # NULL
      /\ req[s].questionUserId = NULL /\ req[s].resp.status = 401
      /\ Len(questions) >= 1

\* C14: a request without tagIds whose tag-generation call failed (it raised,
\* or its text was not JSON, or not an array of strings) has an empty tag
\* list, makes no duplicate search and goes on to getOrCreateTags,
\* createQuestion and the fan-out; when it has responded it has created its
\* question and run the five bot tasks, and any error it answered is the 500
\* of a failed insert of the question or of five failed bots.
C14_TagFailureNeverBlocks ==
    \A s \in Slots :
      LET r == req[s]
      IN r.genFailed =>
           /\ r.tagIds = {} /\ r.genCalls = 1
           /\ r.tagNames = <<>>
           /\ r.rpcCalls = 0 /\ r.topMatch = NoMatch
           /\ r.pc \in {"getOrCreateTags", "createQuestion", "fanout", "done"}
           /\ r.pc = "done" =>
                \/ /\ r.newQ = 1 /\ r.qid \in DOMAIN questions
                   /\ AllSettled(r.bots)
                   /\ r.resp.status = IF Succeeded(r) = {} THEN 500 ELSE 200
                \/ r.newQ = 0 /\ r.qid = 0 /\ r.resp.status = 500

\* C14 witness: a request whose tag generation failed has created the second
\* question of the store and been answered 200, the first question carrying
\* tags.
C14_Witness ==
    \E s \in Slots :
      /\ req[s].genFailed /\ req[s].pc = "done" /\ req[s].resp.status = 200
      /\ req[s].qid = 2 /\ questions[1].tags # {}

\* The class of upstream error that made every bot of request r fail, if
\* there is one.
AllFailedWith(r, class) == \A i \in BotIdx : r.bots[i].error = class

\* C15: a request all of whose model calls failed for exhausted quota is
\* answered 429, for an invalid credential 401, for an unavailable model
\* 400, and only a failure of no such class is answered 500.
C15_UpstreamErrorStatus ==
    \A s \in Slots :
      LET r == req[s]
      IN (r.pc = "done" /\ r.qid # 0) =>
           \A class \in ErrorClasses :
             AllFailedWith(r, class) => r.resp.status = CatchStatus(class)

\* C16: a createVote call given both a questionId and an answerId, or
\* neither, leaves the votes table as it was and returns null; and every row
\* of the table has exactly one of question_id and answer_id.
C16_ExclusiveTarget ==
    /\ \A v \in votes : votes_item_check(v)
    /\ (hist # <<>> /\ ~ValidTarget(hist[Len(hist)])) =>
         (votes = hist[Len(hist)].before /\ hist[Len(hist)].ret = NoVote)

\* The rows stored on a target, by vote type.
StoredOn(questionId, answerId, voteType) ==
    {v \in votes : /\ v.vote_type = voteType
                   /\ \/ questionId # NULL /\ v.question_id = questionId
                      \/ answerId # NULL /\ v.answer_id = answerId}

CountsFromRows(questionId, answerId) ==
    LET c == getVoteCounts(votesTable, votes, questionId, answerId)
    IN /\ c.upvotes = Cardinality(StoredOn(questionId, answerId, "upvote"))
       /\ c.downvotes = Cardinality(StoredOn(questionId, answerId, "downvote"))
       /\ c.total = c.upvotes - c.downvotes

\* C17: in every state reached by createVote calls, for every question and
\* every answer, getVoteCounts returns the number of upvote rows stored on it,
\* the number of downvote rows stored on it, and their difference as the
\* total; the question list's total of a question is that same difference.
C17_CountsFromRows ==
    /\ \A q \in QuestionIds :
         /\ CountsFromRows(q, NULL)
         /\ voteTotalMap(votesTable, votes, q)
              = getVoteCounts(votesTable, votes, q, NULL).total
    /\ \A a \in AnswerIds : CountsFromRows(NULL, a)

\* Votes were cast and toggled, and a target holds more upvotes than
\* downvotes while another holds a downvote only.
C17_Witness ==
    /\ Len(hist) = 2
    /\ \E q \in QuestionIds, a \in AnswerIds :
         /\ getVoteCounts(votesTable, votes, q, NULL)
              = [upvotes |-> 2, downvotes |-> 0, total |-> 2]
         /\ getVoteCounts(votesTable, votes, NULL, a)
              = [upvotes |-> 0, downvotes |-> 1, total |-> -1]

\* What getVoteCounts returns for a target nobody has voted on.
NoVotesYet(questionId, answerId) == getVoteCounts(TRUE, {}, questionId, answerId)

\* C18: with the votes table missing and a vote attempted, getVoteCounts
\* does not return for any target what it returns for a target with no votes
\* yet, and a createVote call on a valid target does not return null, the
\* value of a toggle-off.
C18_StoreFailureVisible ==
    (~votesTable /\ hist # <<>>) =>
      /\ \A q \in QuestionIds :
           getVoteCounts(votesTable, votes, q, NULL) # NoVotesYet(q, NULL)
      /\ \A a \in AnswerIds :
           getVoteCounts(votesTable, votes, NULL, a) # NoVotesYet(NULL, a)
      /\ ValidTarget(hist[Len(hist)]) => hist[Len(hist)].ret # NoVote

\* The tags that spell name up to letter case.
SameUpToCase(table, name) == {t \in table : Lower(t) = Lower(name)}

\* C19: after a getOrCreateTags call the store served, the input names that
\* differ only in letter case resolve to one tag of the result, and a name
\* that matched a tag of the table up to letter case returns that tag and
\* adds no tag to the table.
C19_CaseNormalized ==
    (tagCall.n > 0 /\ tagCall.ok) =>
      \A i \in DOMAIN tagCall.names :
        LET name == tagCall.names[i]
        IN /\ Cardinality(SameUpToCase(tagCall.result, name)) = 1
           /\ SameUpToCase(tagCall.before, name) # {} =>
                /\ SameUpToCase(tagCall.result, name) = SameUpToCase(tagCall.before, name)
                /\ SameUpToCase(tags, name) = SameUpToCase(tagCall.before, name)

\* The call failed at the generation stage: it returned after the loop with
\* no answer to save.
FailedAtGeneration(g) == g.pc = "done" /\ g.called # <<>> /\ g.error # NULL

Raised(reply) == reply \in ErrorClasses

\* C20: within one generateBotAnswer call the models called are the first
\* ones of the list, in the list's order and each once; every model before
\* the last one called raised; and the call fails at the generation stage
\* only when all five models were called and every one raised.
C20_ModelFallback ==
    /\ Len(gen.called) <= Len(modelsToTry)
    /\ gen.called = SubSeq(modelsToTry, 1, Len(gen.called))
    /\ \A i \in 1..(Len(gen.replies) - 1) : Raised(gen.replies[i])
    /\ FailedAtGeneration(gen) =>
         /\ Len(gen.called) = Len(modelsToTry)
         /\ \A i \in DOMAIN gen.replies : Raised(gen.replies[i])

\* C21: the search_count of every question is higher than the value it was
\* created with by the number of requests that took the duplicate path with
\* it as their top match and whose update the store accepted, whatever the
\* interleaving of the requests.
C21_NoLostIncrement ==
    \A q \in DOMAIN questions : questions[q].search_count = askLog[q].dups

\* The rows of a store without their ids (ids are fresh at every insert).
Content(store) == {[v EXCEPT !.id = 0] : v \in store}

\* The store after call h has run alone from store.
RunAlone(store, h) ==
    WriteVote(votesTable, store,
              getUserVote(votesTable, store, h.userId, h.questionId, h.answerId),
              h.userId, h.questionId, h.answerId, h.voteType, MaxVoteIds + 1).votes

\* The two calls of a pair have both returned.
PairDone ==
    /\ calls[1].pc = "done" /\ calls[2].pc = "done"
    /\ Len(hist) = 2

\* The stores the two sequential orders of the pair's calls end in.
SequentialOrders ==
    {Content(RunAlone(RunAlone(hist[1].before, hist[1]), hist[2])),
     Content(RunAlone(RunAlone(hist[1].before, hist[2]), hist[1]))}

\* C22, the claim as stated: when two concurrent createVote calls of one user
\* on one target have returned, the votes store is what one of the two
\* sequential orders of the calls leaves.
C22_Original ==
    PairDone => Content(votes) \in SequentialOrders

\* C22: when two concurrent createVote calls of one user on one target have
\* returned, the votes store is what one of the two sequential orders of the
\* calls leaves, or what one of the two calls run alone leaves (the effect of
\* the other call is lost); no row of another user or target differs and no
\* two stored rows are the same vote.
C22_SequentialOrOneLost ==
    PairDone =>
      /\ Content(votes) \in SequentialOrders
                              \cup {Content(RunAlone(hist[1].before, hist[1])),
                                    Content(RunAlone(hist[1].before, hist[2]))}
      /\ Cardinality(votes) = Cardinality(Content(votes))

\* C22 witness: the two calls of a pair that started from a store holding
\* votes have both returned, and the store, which still holds a vote, is not
\* what either sequential order leaves.
C22_Witness ==
    /\ PairDone
    /\ hist[1].before # {}
    /\ Content(votes) \notin SequentialOrders
    /\ votes # {}

\* Call c returns in this step.
Returns(c) == calls[c].pc = "write" /\ calls'[c].pc = "done"

\* C23: when a createVote call returns null, its user has no vote on its
\* target in the store it leaves; when it returns a vote, that vote is the
\* user's only vote on the target and has the type asked for.
C23_NullMeansRemoved ==
    [][\A c \in CallSlots :
         LET k == calls[c]
             ret == calls'[c].ret
             rows == UserVoteRows(votes', k.userId, k.questionId, k.answerId)
         IN Returns(c) =>
              /\ ret = NoVote => rows = {}
              /\ ret # NoVote => (rows = {ret} /\ ret.vote_type = k.voteType)]_vars

\* C24: every response with isDuplicate: true carries at least one answer of
\* the matched question.
C24_DuplicateHasAnswers ==
    \A s \in Slots :
      (req[s].pc = "done" /\ req[s].resp.isDuplicate) => req[s].resp.answers # <<>>

\* No bot task of request r has started.
NoBotStarted(r) == ~r.botCalls /\ r.newAns = 0 /\ \A i \in BotIdx : r.bots[i].st = "idle"

\* The question of request r is in the questions table, and the answer rows
\* of r reference it.
AnswersOfOwnQuestion(r, table) ==
    /\ r.qid \in DOMAIN table
    /\ \A i \in BotIdx :
         r.bots[i].answer # NoAnswer => r.bots[i].answer.question_id = r.qid

\* C25: the step that persists the question of a request is taken with no
\* bot task started, and from then on every bot task of the request runs with
\* the question in the store and every answer row references a stored
\* question, those of the request its own; the step at which persisting fails
\* ends the request with status 500, no bot task started, no answer row
\* written.
C25_QuestionBeforeBots ==
    [][/\ \A k \in AnswerKeys : answers'[k] > 0 => k[1] \in DOMAIN questions'
       /\ \A s \in Slots :
            LET r == req[s]
                n == req'[s]
            IN /\ ~NoBotStarted(n) => AnswersOfOwnQuestion(n, questions')
               /\ (r.pc = "createQuestion" /\ n # r) =>
                    /\ NoBotStarted(r)
                    /\ answers' = answers
                    /\ IF Len(questions') = Len(questions)
                         THEN /\ n.pc = "done" /\ n.resp.status = 500
                              /\ NoBotStarted(n)
                       ELSE /\ n.pc = "fanout"
                            /\ n.qid = Len(questions')]_vars

\* C25 witness: the second request's question is the only one stored, its
\* first bot has written an answer row for it, and a bot task is yet to end.
C25_Witness ==
    /\ asks = 2 /\ Len(questions) = 1
    /\ req[1].pc = "fanout" /\ req[1].qid = 1
    /\ req[1].bots[1].answer # NoAnswer
    /\ answers[<<1, BotId(1)>>] = 1
    /\ req[1].bots[2].st = "run"

\* C26: a step of a deleteComment(commentId, userId) call removes nothing
\* but the row of commentId, and only when that row is there and its user_id
\* is userId; a call made for a comment that is missing or of another user
\* returns false and has removed nothing.
C26_DeleteOwnCommentOnly ==
    [][\A d \in DelSlots :
         LET k == dels'[d]
         IN dels'[d] # dels[d] =>
              /\ comments' \subseteq comments
              /\ \A c \in comments \ comments' :
                   c.id = k.commentId /\ c.user_id = k.userId
              /\ (k.pc = "done" /\ (k.was = NoComment \/ k.was.user_id # k.userId)) =>
                   (~k.ret /\ k.removed = {})]_vars

\* C26 witness: one call has removed the comment of its user and returned
\* true, another, made by a user for a comment of somebody else, has returned
\* false, and that comment is still in the table.
C26_Witness ==
    \E d1, d2 \in DelSlots :
      /\ dels[d1].pc = "done" /\ dels[d1].ret /\ dels[d1].removed # {}
      /\ dels[d2].pc = "done" /\ ~dels[d2].ret
      /\ dels[d2].was # NoComment /\ dels[d2].was.user_id # dels[d2].userId
      /\ dels[d2].was \in comments

\* The polling of a load is under way.
Polling(k) == k.pc \in {"wait", "poll"}

\* The load ended at the response of a poll, not OK or with answers.
EndedByPoll(k) == k.stopped \in {"notOk", "answers"} /\ k.delays # <<>>

\* C27: the timer loadQuestionById sets on an empty answers list is of
\* 1200 ms and every later one of 1500 ms, one per empty response; a load
\* issues at most 6 polls; a poll is issued only after as many empty
\* responses as polls before it, so that a response that is not OK or holds
\* answers is the last; a load gives up only after 6 polls, all answered
\* empty; no error is ever set; and a polling under way comes to its end.
C27_PollingBounded ==
    /\ [](\A l \in LoadSlots :
            LET k == loads[l]
            IN /\ k.polls <= PollLimit
               /\ \A i \in DOMAIN k.delays :
                    k.delays[i] = IF i = 1 THEN FirstPollDelay ELSE PollDelay
               /\ Polling(k) => Len(k.delays) = k.attempt + 1
               /\ k.polls = IF k.pc = "poll" \/ EndedByPoll(k)
                              THEN k.attempt + 1 ELSE k.attempt
               /\ k.stopped = "gaveUp" => (k.polls = PollLimit /\ k.attempt = PollLimit)
               /\ ui.error = "")
    /\ \A l \in LoadSlots : Polling(loads[l]) ~> (loads[l].pc = "done")

\* C27 witness: a load has given up after its sixth poll was answered with
\* an empty list, seven timers set in all.
C27_Witness ==
    /\ loads[1].pc = "done" /\ loads[1].stopped = "gaveUp"
    /\ loads[1].polls = 6
    /\ loads[1].delays = <<1200, 1500, 1500, 1500, 1500, 1500, 1500>>
    /\ ui.answers = <<>>

\* C28: a run of the reveal effect schedules one reveal per answer, in the order of a
\* permutation of the answers; the first after 1000 ms, and each later one
\* between 2000 and 4000 ms after the one before it.
C28_RevealSpacing ==
    (~effect.due /\ effect.shuffled # <<>>) =>
      /\ effect.shuffled \in shuffleArray(ui.answers)
      /\ Len(effect.delays) = Len(ui.answers)
      /\ effect.delays[1] = 1000
      /\ \A i \in 2..Len(effect.delays) :
           /\ effect.delays[i] - effect.delays[i - 1] >= 2000
           /\ effect.delays[i] - effect.delays[i - 1] <= 4000

\* C29: once the reveal effect has run, visibleAnswers holds no two entries
\* with the same answer id, and every entry of it is an answer of the current
\* answers list.
C29_VisibleOfCurrentList ==
    ~effect.due =>
      /\ \A i, j \in DOMAIN ui.visibleAnswers :
           ui.visibleAnswers[i] = ui.visibleAnswers[j] => i = j
      /\ \A i \in DOMAIN ui.visibleAnswers :
           \E j \in DOMAIN ui.answers : ui.answers[j] = ui.visibleAnswers[i]

\* C30: in the question view with a question in currentQuestion, once the
\* reveal effect has run, every answer on display belongs to that question.
C30_AnswersOfCurrentQuestion ==
    (ui.view = "question" /\ ui.currentQuestion # NULL /\ ~effect.due) =>
      \A i \in DOMAIN ui.visibleAnswers :
        QuestionOf[ui.visibleAnswers[i]] = ui.currentQuestion

====
